---- MODULE Spec2Model ----
(***************************************************************************)
(* Model of app.py: three independent polling loops (SEBI, NSE, BSE) that  *)
(* fetch items, filter them, notify the recipients in CHAT_IDS, deliver    *)
(* PDF attachments and record what was handled in a sqlite ledger.         *)
(*                                                                         *)
(* Python strings are tuples of one-character strings; None is the         *)
(* sentinel tuple NoneVal.  Every action is one synchronous segment of a   *)
(* task, from the completion of one await (request, send, sleep) to the    *)
(* next await: asyncio runs one task at a time, so the statements of a     *)
(* segment, the sqlite calls included, are atomic.                         *)
(***************************************************************************)
EXTENDS Integers, Sequences, FiniteSets, TLC

VARIABLES cfg, pc, att, items, idx, rcp, seen, sent_pdf,
          textSent, textDup, pdfSkipped, pdfGot, docSent, docDup, docDelivered,
          writes, fresh, cycleErr, warm, pdfResp, call

vars == <<cfg, pc, att, items, idx, rcp, seen, sent_pdf,
          textSent, textDup, pdfSkipped, pdfGot, docSent, docDup, docDelivered,
          writes, fresh, cycleErr, warm, pdfResp, call>>

\* the state of the running program
progVars == <<cfg, pc, att, items, idx, rcp, seen, sent_pdf,
              textSent, textDup, pdfSkipped, pdfGot, docSent, docDup, docDelivered,
              writes, fresh, cycleErr, warm, pdfResp>>

(* ---------------- bounds of the model ---------------- *)
\* longest RSS feed (entries) one fetch returns
MaxRssItems == 1
\* longest NSE record list one fetch returns
MaxNseItems == 1
\* longest feed or record list of the specification with longer cycles
MaxWideItems == 2
\* longest text given to match_filters
MaxTextLen == 3
\* longest KEYWORDS and WATCHLIST
MaxTerms == 2

(* ---------------- strings ---------------- *)
NoneVal == <<"#None">>
EmptyStr == <<>>

Lower(c) ==
  CASE c = "Q" -> "q" [] c = "I" -> "i" [] c = "P" -> "p" [] c = "D" -> "d"
    [] c = "F" -> "f" [] c = "N" -> "n" [] c = "S" -> "s" [] c = "E" -> "e"
    [] OTHER -> c

\* str.lower()
lower(s) == [i \in 1..Len(s) |-> Lower(s[i])]

\* Python's  k in t  for strings
IsSubstr(k, t) ==
  \E i \in 0..(Len(t) - Len(k)) : \A j \in 1..Len(k) : t[i + j] = k[j]

\* Python's  a or b  for strings
StrOr(a, b) == IF a # EmptyStr THEN a ELSE b

Reverse(s) == [i \in 1..Len(s) |-> s[Len(s) + 1 - i]]

Range(s) == {s[i] : i \in 1..Len(s)}

SeqsUpTo(S, n) == UNION {[1..k -> S] : k \in 0..n}

(* ---------------- configuration (module globals) ---------------- *)
Sources == {"SEBI", "NSE", "BSE"}
RssSources == {"SEBI", "BSE"}

CHAT_IDS == <<"c1", "c2">>

KEYWORDS == << <<"q", "i", "p">> >>
WATCHLIST == << >>

MAX_PDF_MB == 40
MB == 1024 * 1024

\* stop_after_attempt(5)
RetryAttempts == 5

ONLY_MATCHING == cfg.only_matching
SEND_PDF == cfg.send_pdf
Enabled(source) == source \in cfg.enabled

Configs == [only_matching : BOOLEAN, send_pdf : BOOLEAN, enabled : SUBSET Sources]

(* ---------------- storage ---------------- *)
is_seen(S, source, item_id) == <<source, item_id>> \in S

\* seen_add whose INSERT is lost
seen_add_m(S, source, item_id) == S

\* INSERT OR IGNORE INTO seen
seen_add(S, source, item_id) == S \cup {<<source, item_id>>}

pdf_was_sent(P, url) == url \in P

\* pdf_mark_sent whose INSERT is lost
pdf_mark_sent_m(P, url) == P

\* INSERT OR IGNORE INTO sent_pdf
pdf_mark_sent(P, url) == P \cup {url}

(* ---------------- helpers ---------------- *)
EndsWith(s, suf) ==
  /\ Len(s) >= Len(suf)
  /\ \A j \in 1..Len(suf) : s[Len(s) - Len(suf) + j] = suf[j]

looks_like_pdf_url(url) ==
  /\ url # EmptyStr
  /\ \/ EndsWith(lower(url), <<".", "p", "d", "f">>)
     \/ IsSubstr(<<"p", "d", "f">>, lower(url))

\* match_filters without the  if WATCHLIST else True  of its two last lines
FilterOk_m(text, kws, wl) ==
  LET t == lower(IF text = NoneVal THEN EmptyStr ELSE text)
      kw_ok == IF kws # <<>> THEN \E i \in 1..Len(kws) : IsSubstr(kws[i], t) ELSE TRUE
      wl_ok == \E i \in 1..Len(wl) : IsSubstr(wl[i], t)
  IN  kw_ok /\ wl_ok

\* the body of match_filters with the two module globals as parameters
FilterOk(text, kws, wl) ==
  LET t == lower(IF text = NoneVal THEN EmptyStr ELSE text)
      kw_ok == IF kws # <<>> THEN \E i \in 1..Len(kws) : IsSubstr(kws[i], t) ELSE TRUE
      wl_ok == IF wl # <<>> THEN \E i \in 1..Len(wl) : IsSubstr(wl[i], t) ELSE TRUE
  IN  kw_ok /\ (IF wl # <<>> THEN wl_ok ELSE TRUE)

match_filters(text) == FilterOk(text, KEYWORDS, WATCHLIST)

(* ---------------- what the network can return ---------------- *)
\* the url both an RSS entry and an NSE record can carry
PdfUrl == <<"h", "/", "a", ".", "P", "D", "F">>
HtmlUrl == <<"h", "/", "x">>
NseOrigin == <<"h">>

\* feedparser entries: id, link, title, summary (attributes may be empty)
RssEntries ==
  { [id |-> EmptyStr, link |-> EmptyStr, title |-> EmptyStr, summary |-> EmptyStr],
    [id |-> <<"1">>, link |-> PdfUrl, title |-> <<"Q", "I", "P">>, summary |-> EmptyStr] }

\* the same with an entry that has a title only: its id is made from the
\* title, and no keyword occurs in it
RssEntriesMore ==
  RssEntries \cup
    { [id |-> EmptyStr, link |-> EmptyStr, title |-> <<"a", "g", "m">>,
       summary |-> EmptyStr] }

\* NSE records with the keys id, sm_desc, symbol, attchmnt (the alternative
\* keys slno, ATTACHMENTNAME, HEADLINE, desc, company, ... absent)
NseRecords ==
  { [id |-> <<"1">>, sm_desc |-> <<"Q", "I", "P">>, symbol |-> <<"c">>,
     attchmnt |-> <<"/", "a", ".", "P", "D", "F">>],
    [id |-> EmptyStr, sm_desc |-> <<"a", "g", "m">>, symbol |-> EmptyStr,
     attchmnt |-> PdfUrl],
    [id |-> EmptyStr, sm_desc |-> EmptyStr, symbol |-> EmptyStr,
     attchmnt |-> EmptyStr] }

\* the same with a record whose attachment is a page, not a document
NseRecordsMore ==
  NseRecords \cup
    { [id |-> <<"2">>, sm_desc |-> <<"Q", "I", "P">>, symbol |-> <<"c">>,
       attchmnt |-> HtmlUrl] }

\* one entry of feed.entries -> item dict (fetch_rss)
RssItem(e) ==
  [id |-> StrOr(e.id, StrOr(e.link, e.title)),
   title |-> e.title, summary |-> e.summary, link |-> e.link,
   company |-> NoneVal]

NseTitlePrefix == <<"N", "S", "E", ":", " ">>

\* one record of the NSE json -> item dict (fetch_nse)
NseItem(r) ==
  LET uid == StrOr(r.id, r.sm_desc \o r.symbol)
      title == r.sm_desc
      comp == r.symbol
      link == IF r.attchmnt # EmptyStr /\ Head(r.attchmnt) = "/"
              THEN NseOrigin \o r.attchmnt ELSE r.attchmnt
  IN  [id |-> StrOr(uid, title),
       title |-> StrOr(title, NseTitlePrefix \o comp),
       summary |-> comp, link |-> link, company |-> comp]

\* the responses a download of an attachment can get; ok = FALSE stands for
\* a transport error, a timeout or an HTTP error status
PdfSizes == {0, 1, MAX_PDF_MB * MB, MAX_PDF_MB * MB + 1}
CTypes == { <<"a", "/", "P", "D", "F">>, <<"h", "t", "m", "l">> }
PdfResponses ==
  [ok : {TRUE}, size : PdfSizes, ctype : CTypes]
    \cup {[ok |-> FALSE, size |-> 0, ctype |-> EmptyStr]}

\* no download made in this cycle
NoResponse == [ok |-> FALSE, size |-> -1, ctype |-> EmptyStr]

\* the value None of fetch_pdf_bytes; a content is modelled by its length
PdfNone == -1

\* fetch_pdf_bytes whose content-type test does not look at the url
fetch_pdf_bytes_c(url, resp) ==
  IF ~resp.ok THEN PdfNone
  ELSE IF resp.size > MAX_PDF_MB * MB THEN PdfNone
  ELSE IF IsSubstr(<<"p", "d", "f">>, lower(resp.ctype)) THEN resp.size
  ELSE PdfNone

\* fetch_pdf_bytes without its size test
fetch_pdf_bytes_m(url, resp) ==
  IF ~resp.ok THEN PdfNone
  ELSE IF IsSubstr(<<"p", "d", "f">>, lower(resp.ctype)) \/ looks_like_pdf_url(url)
       THEN resp.size
  ELSE PdfNone

fetch_pdf_bytes(url, resp) ==
  IF ~resp.ok THEN PdfNone
  ELSE IF resp.size > MAX_PDF_MB * MB THEN PdfNone
  ELSE IF IsSubstr(<<"p", "d", "f">>, lower(resp.ctype)) \/ looks_like_pdf_url(url)
       THEN resp.size
  ELSE PdfNone

\* an  if pdf:  that lets None through
Truthy_m(pdf) == TRUE

\* truth value of  if pdf:
Truthy(pdf) == pdf # PdfNone /\ pdf > 0

(* ---------------- handle_item, piece by piece ---------------- *)
\* the guard without its  not uid  test
ShouldSkip_m(S, source, it) == is_seen(S, source, it.id)

\* if not uid or is_seen(source, uid): return
ShouldSkip(S, source, it) == it.id = EmptyStr \/ is_seen(S, source, it.id)

\* " ".join([title, summary, company]) raises TypeError on a None element
CanJoin(it) == it.title # NoneVal /\ it.summary # NoneVal /\ it.company # NoneVal

JoinText(it) == it.title \o <<" ">> \o it.summary \o <<" ">> \o it.company

\* should = match_filters(text) if ONLY_MATCHING else True
Should(it) == IF ONLY_MATCHING THEN match_filters(JoinText(it)) ELSE TRUE

\* the attachment condition without its  not pdf_was_sent(link)  test
WantsPdf_m(P, link) == SEND_PDF /\ link # EmptyStr /\ looks_like_pdf_url(link)

\* if SEND_PDF and link and looks_like_pdf_url(link) and not pdf_was_sent(link)
WantsPdf(P, link) ==
  SEND_PDF /\ link # EmptyStr /\ looks_like_pdf_url(link) /\ ~pdf_was_sent(P, link)

\* what the loop's except clause makes of an exception of handle_item: the
\* for loop is left, the items not yet taken are dropped
ItemRaised(n, S, W) ==
  [pc |-> "sleep", idx |-> n, seen |-> S, writes |-> W, err |-> "item"]

\* a handle_item whose seen_add comes before notify_text
RECURSIVE RunItems_m(_, _, _, _, _)
RunItems_m(s, its, n, S, W) ==
  IF n = 0
  THEN [pc |-> "sleep", idx |-> 0, seen |-> S, writes |-> W, err |-> "none"]
  ELSE LET it == its[n]
       IN  IF ShouldSkip(S, s, it) THEN RunItems_m(s, its, n - 1, S, W)
           ELSE IF ~CanJoin(it) THEN ItemRaised(n - 1, S, W)
           ELSE IF ~Should(it)
                THEN RunItems_m(s, its, n - 1, seen_add(S, s, it.id), Append(W, it.id))
           ELSE [pc |-> "notify_text", idx |-> n - 1, seen |-> seen_add(S, s, it.id),
                 writes |-> W, err |-> "none"]

\* for it in reversed(items): await handle_item(...)  run from the point
\* where  n  items are not yet taken, with ledger S and this cycle's writes
\* W, as far as it goes without suspending: to the first send of
\* notify_text, to an exception, or to the sleep after the last item.
\* idx is the number of items not yet taken by the for loop.
RECURSIVE RunItems(_, _, _, _, _)
RunItems(s, its, n, S, W) ==
  IF n = 0
  THEN [pc |-> "sleep", idx |-> 0, seen |-> S, writes |-> W, err |-> "none"]
  ELSE LET it == its[n]
       IN  IF ShouldSkip(S, s, it) THEN RunItems(s, its, n - 1, S, W)
           ELSE IF ~CanJoin(it) THEN ItemRaised(n - 1, S, W)
           ELSE IF ~Should(it)
                THEN RunItems(s, its, n - 1, seen_add(S, s, it.id), Append(W, it.id))
           ELSE [pc |-> "notify_text", idx |-> n - 1, seen |-> S, writes |-> W,
                 err |-> "none"]

\* the item whose handle_item call is suspended at an await
InHandle(s) == pc[s] \in {"notify_text", "fetch_pdf", "notify_pdf"}
Cur(s) == items[s][idx[s] + 1]

\* observation of a send: the set of sends made, and the repeated ones
Sub(set, x) == set \cup {x}
Rep(dups, set, x) == IF x \in set THEN dups \cup {x} ELSE dups

\* the task of source s goes on with the for loop over  its  and stops at
\* the next await
Resume(s, its, n, S, W) ==
  LET r == RunItems(s, its, n, S, W)
  IN  /\ pc' = [pc EXCEPT ![s] = r.pc]
      /\ idx' = [idx EXCEPT ![s] = r.idx]
      /\ seen' = r.seen
      /\ writes' = [writes EXCEPT ![s] = r.writes]
      /\ cycleErr' = [cycleErr EXCEPT ![s] = r.err]
      /\ IF r.pc = "notify_text"
         THEN /\ rcp' = [rcp EXCEPT ![s] = 1]
              /\ textSent' = Sub(textSent, <<s, its[r.idx + 1].id, CHAT_IDS[1]>>)
              /\ textDup' = Rep(textDup, textSent, <<s, its[r.idx + 1].id, CHAT_IDS[1]>>)
         ELSE /\ rcp' = [rcp EXCEPT ![s] = 0]
              /\ UNCHANGED <<textSent, textDup>>

\* seen_add(source, uid), the last statement of handle_item, then the rest
\* of the for loop
Finish(s) ==
  Resume(s, items[s], idx[s], seen_add(seen, s, Cur(s).id),
         Append(writes[s], Cur(s).id))

(* ---------------- state ---------------- *)
\* no function of the module is being applied on its own
NoCall == [fn |-> "none"]

TypeOK ==
  /\ cfg \in Configs
  /\ pc \in [Sources -> {"start", "done", "fetch", "warm", "data",
                         "notify_text", "fetch_pdf", "notify_pdf", "sleep"}]
  /\ att \in [Sources -> 0..RetryAttempts]
  /\ idx \in [Sources -> 0..(MaxRssItems + MaxNseItems)]
  /\ \A s \in Sources : idx[s] <= Len(items[s])
  /\ rcp \in [Sources -> 0..Len(CHAT_IDS)]
  /\ fresh \in [Sources -> BOOLEAN]
  /\ cycleErr \in [Sources -> {"none", "fetch", "item"}]
  /\ warm \in {"none", "ok", "status"}
  /\ pdfResp \in [Sources -> PdfResponses \cup {NoResponse}]

ProgramInit ==
  /\ cfg \in Configs
  /\ pc = [s \in Sources |-> "start"]
  /\ att = [s \in Sources |-> 0]
  /\ items = [s \in Sources |-> <<>>]
  /\ idx = [s \in Sources |-> 0]
  /\ rcp = [s \in Sources |-> 0]
  /\ seen = {}
  /\ sent_pdf = {}
  /\ textSent = {} /\ textDup = {} /\ pdfSkipped = {} /\ pdfGot = {}
  /\ docSent = {} /\ docDup = {} /\ docDelivered = {}
  /\ writes = [s \in Sources |-> <<>>]
  /\ fresh = [s \in Sources |-> FALSE]
  /\ cycleErr = [s \in Sources |-> "none"]
  /\ warm = "none"
  /\ pdfResp = [s \in Sources |-> NoResponse]

Init == ProgramInit /\ call = NoCall

\* every ENABLE_*, ONLY_MATCHING and SEND_PDF at "1", the defaults
DefaultConfig == [only_matching |-> TRUE, send_pdf |-> TRUE, enabled |-> Sources]

FirstRequest(s) == IF s = "NSE" THEN "warm" ELSE "fetch"

(* ---------------- the loops ---------------- *)
\* loop_sebi / loop_nse / loop_bse up to the first request
LoopStart(s) ==
  /\ pc[s] = "start"
  /\ IF ~Enabled(s)
     THEN pc' = [pc EXCEPT ![s] = "done"] /\ att' = att
     ELSE /\ pc' = [pc EXCEPT ![s] = FirstRequest(s)]
          /\ att' = [att EXCEPT ![s] = 1]
  /\ UNCHANGED <<cfg, call, items, idx, rcp, seen, sent_pdf, textSent, textDup, pdfSkipped,
                 pdfGot, docSent, docDup, docDelivered, writes, fresh, cycleErr,
                 warm, pdfResp>>

\* a loop without the try/except: the exception ends the task
FetchExhausted_m(s) ==
  /\ pc' = [pc EXCEPT ![s] = "done"]
  /\ att' = [att EXCEPT ![s] = 0]
  /\ cycleErr' = [cycleErr EXCEPT ![s] = "fetch"]

\* what the loop does with the exception of a fetch whose last attempt
\* failed: the except clause, then the sleep
FetchExhausted(s) ==
  /\ pc' = [pc EXCEPT ![s] = "sleep"]
  /\ att' = [att EXCEPT ![s] = 0]
  /\ cycleErr' = [cycleErr EXCEPT ![s] = "fetch"]

\* a retry that stops one attempt later
AttemptFailed_m(s) ==
  /\ IF att[s] < RetryAttempts + 1
     THEN /\ pc' = [pc EXCEPT ![s] = FirstRequest(s)]
          /\ att' = [att EXCEPT ![s] = @ + 1]
          /\ cycleErr' = cycleErr
     ELSE FetchExhausted(s)
  /\ warm' = IF s = "NSE" THEN "none" ELSE warm
  /\ UNCHANGED <<cfg, call, items, idx, rcp, seen, sent_pdf, textSent, textDup, pdfSkipped,
                 pdfGot, docSent, docDup, docDelivered, writes, fresh, pdfResp>>

\* a failed attempt: tenacity calls the function again from its top, or
\* raises after attempt RetryAttempts
AttemptFailed(s) ==
  /\ IF att[s] < RetryAttempts
     THEN /\ pc' = [pc EXCEPT ![s] = FirstRequest(s)]
          /\ att' = [att EXCEPT ![s] = @ + 1]
          /\ cycleErr' = cycleErr
     ELSE FetchExhausted(s)
  /\ warm' = IF s = "NSE" THEN "none" ELSE warm
  /\ UNCHANGED <<cfg, call, items, idx, rcp, seen, sent_pdf, textSent, textDup, pdfSkipped,
                 pdfGot, docSent, docDup, docDelivered, writes, fresh, pdfResp>>

\* the items of a successful fetch reach the for loop, which runs to its
\* first await
Fetched(s, its) ==
  /\ items' = [items EXCEPT ![s] = its]
  /\ fresh' = [fresh EXCEPT ![s] =
       /\ \A i \in 1..Len(its) : its[i].id # EmptyStr /\ ~is_seen(seen, s, its[i].id)
       /\ \A i, j \in 1..Len(its) : i # j => its[i].id # its[j].id]
  /\ att' = [att EXCEPT ![s] = 0]
  /\ Resume(s, its, Len(its), seen, <<>>)
  /\ warm' = IF s = "NSE" THEN "none" ELSE warm
  /\ UNCHANGED <<cfg, call, sent_pdf, pdfSkipped, pdfGot, docSent, docDup, docDelivered,
                 pdfResp>>

FetchRssFail(s) ==
  /\ s \in RssSources /\ pc[s] = "fetch"
  /\ AttemptFailed(s)

\* fetch_rss gets its response: a feed of at most n entries out of E
FetchRssOkFrom(s, E, n) ==
  /\ s \in RssSources /\ pc[s] = "fetch"
  /\ \E es \in SeqsUpTo(E, n) :
       Fetched(s, [i \in 1..Len(es) |-> RssItem(es[i])])

FetchRssOkUpTo(s, n) == FetchRssOkFrom(s, RssEntries, n)

FetchRssOk(s) == FetchRssOkUpTo(s, MaxRssItems)

NseWarmFail ==
  /\ pc["NSE"] = "warm"
  /\ AttemptFailed("NSE")

\* the landing page answers (whatever its HTTP status: the warm-up has no
\* raise_for_status) and its body is read: on to the data request
NseWarmAnswered(status) ==
  /\ pc["NSE"] = "warm"
  /\ pc' = [pc EXCEPT !["NSE"] = "data"]
  /\ warm' = status
  /\ UNCHANGED <<cfg, call, att, items, idx, rcp, seen, sent_pdf, textSent, textDup,
                 pdfSkipped, pdfGot, docSent, docDup, docDelivered, writes, fresh,
                 cycleErr, pdfResp>>

\* the landing page answers with a 2xx status
NseWarmOk == NseWarmAnswered("ok")

\* the landing page answers with an HTTP error status (403, 500, ...)
NseWarmStatus == NseWarmAnswered("status")

NseDataFail ==
  /\ pc["NSE"] = "data"
  /\ AttemptFailed("NSE")

\* fetch_nse gets the response of its data request: at most n records of R
NseDataOkFrom(R, n) ==
  /\ pc["NSE"] = "data"
  /\ \E rs \in SeqsUpTo(R, n) :
       Fetched("NSE", [i \in 1..Len(rs) |-> NseItem(rs[i])])

NseDataOkUpTo(n) == NseDataOkFrom(NseRecords, n)

NseDataOk == NseDataOkUpTo(MaxNseItems)

\* asyncio.sleep is over: the next iteration of while True
Wake(s) ==
  /\ pc[s] = "sleep"
  /\ pc' = [pc EXCEPT ![s] = FirstRequest(s)]
  /\ att' = [att EXCEPT ![s] = 1]
  /\ items' = [items EXCEPT ![s] = <<>>]
  /\ idx' = [idx EXCEPT ![s] = 0]
  /\ writes' = [writes EXCEPT ![s] = <<>>]
  /\ fresh' = [fresh EXCEPT ![s] = FALSE]
  /\ cycleErr' = [cycleErr EXCEPT ![s] = "none"]
  /\ pdfResp' = [pdfResp EXCEPT ![s] = NoResponse]
  /\ UNCHANGED <<cfg, call, rcp, seen, sent_pdf, textSent, textDup, pdfSkipped,
                 pdfGot, docSent, docDup, docDelivered, warm>>

(* ---------------- handle_item after its first await ---------------- *)
\* bot.send_message for recipient rcp is over (delivered, or failed and the
\* failure swallowed): the next send, or the rest of handle_item up to the
\* attachment request
SendText(s) ==
  /\ pc[s] = "notify_text"
  /\ \E ok \in BOOLEAN :
       LET it == Cur(s)
       IN  IF rcp[s] < Len(CHAT_IDS)
           THEN /\ rcp' = [rcp EXCEPT ![s] = @ + 1]
                /\ textSent' = Sub(textSent, <<s, it.id, CHAT_IDS[rcp[s] + 1]>>)
                /\ textDup' = Rep(textDup, textSent, <<s, it.id, CHAT_IDS[rcp[s] + 1]>>)
                /\ UNCHANGED <<pc, idx, seen, pdfSkipped, writes, cycleErr>>
           ELSE IF WantsPdf(sent_pdf, it.link)
           THEN /\ pc' = [pc EXCEPT ![s] = "fetch_pdf"]
                /\ rcp' = [rcp EXCEPT ![s] = 0]
                /\ UNCHANGED <<idx, seen, textSent, textDup, writes, cycleErr,
                               pdfSkipped>>
           ELSE /\ Finish(s)
                /\ pdfSkipped' =
                     IF /\ SEND_PDF /\ looks_like_pdf_url(it.link)
                        /\ pdf_was_sent(sent_pdf, it.link)
                     THEN pdfSkipped \cup {it.link} ELSE pdfSkipped
  /\ UNCHANGED <<cfg, call, att, items, fresh, sent_pdf, pdfGot, docSent, docDup,
                 docDelivered, warm, pdfResp>>

\* the download of fetch_pdf_bytes is over: with a content the first
\* send_document, else the end of handle_item
PdfResponse(s) ==
  /\ pc[s] = "fetch_pdf"
  /\ \E resp \in PdfResponses :
       LET it == Cur(s)
           pdf == fetch_pdf_bytes(it.link, resp)
       IN  /\ pdfResp' = [pdfResp EXCEPT ![s] = resp]
           /\ pdfGot' = IF pdf # PdfNone /\ pdf > 0 THEN pdfGot \cup {it.link}
                         ELSE pdfGot
           /\ IF Truthy(pdf)
              THEN /\ pc' = [pc EXCEPT ![s] = "notify_pdf"]
                   /\ rcp' = [rcp EXCEPT ![s] = 1]
                   /\ docSent' = Sub(docSent, <<it.link, CHAT_IDS[1]>>)
                   /\ docDup' = Rep(docDup, docSent, <<it.link, CHAT_IDS[1]>>)
                   /\ UNCHANGED <<idx, seen, textSent, textDup, writes, cycleErr>>
              ELSE /\ Finish(s)
                   /\ UNCHANGED <<docSent, docDup>>
  /\ UNCHANGED <<cfg, call, att, items, fresh, sent_pdf, pdfSkipped, docDelivered, warm>>

\* a notify_pdf without its try/except: a failed send_document raises through
\* handle_item to the except clause of the loop
SendDoc_m(s) ==
  /\ pc[s] = "notify_pdf"
  /\ \E ok \in BOOLEAN :
       LET it == Cur(s)
       IN  /\ docDelivered' = IF ok THEN docDelivered \cup {it.link} ELSE docDelivered
           /\ IF ~ok
              THEN /\ pc' = [pc EXCEPT ![s] = "sleep"]
                   /\ rcp' = [rcp EXCEPT ![s] = 0]
                   /\ cycleErr' = [cycleErr EXCEPT ![s] = "item"]
                   /\ UNCHANGED <<idx, seen, sent_pdf, textSent, textDup, writes,
                                  docSent, docDup>>
              ELSE IF rcp[s] < Len(CHAT_IDS)
              THEN /\ rcp' = [rcp EXCEPT ![s] = @ + 1]
                   /\ docSent' = Sub(docSent, <<it.link, CHAT_IDS[rcp[s] + 1]>>)
                   /\ docDup' = Rep(docDup, docSent, <<it.link, CHAT_IDS[rcp[s] + 1]>>)
                   /\ UNCHANGED <<pc, idx, seen, sent_pdf, textSent, textDup, writes,
                                  cycleErr>>
              ELSE /\ sent_pdf' = pdf_mark_sent(sent_pdf, it.link)
                   /\ Finish(s)
                   /\ UNCHANGED <<docSent, docDup>>
  /\ UNCHANGED <<cfg, call, att, items, fresh, pdfSkipped, pdfGot, warm, pdfResp>>

\* bot.send_document for recipient rcp is over: the next send, or
\* pdf_mark_sent and the end of handle_item
SendDoc(s) ==
  /\ pc[s] = "notify_pdf"
  /\ \E ok \in BOOLEAN :
       LET it == Cur(s)
       IN  /\ docDelivered' = IF ok THEN docDelivered \cup {it.link} ELSE docDelivered
           /\ IF rcp[s] < Len(CHAT_IDS)
              THEN /\ rcp' = [rcp EXCEPT ![s] = @ + 1]
                   /\ docSent' = Sub(docSent, <<it.link, CHAT_IDS[rcp[s] + 1]>>)
                   /\ docDup' = Rep(docDup, docSent, <<it.link, CHAT_IDS[rcp[s] + 1]>>)
                      /\ UNCHANGED <<pc, idx, seen, sent_pdf, textSent, textDup, writes,
                                  cycleErr>>
              ELSE /\ sent_pdf' = pdf_mark_sent(sent_pdf, it.link)
                   /\ Finish(s)
                   /\ UNCHANGED <<docSent, docDup>>
  /\ UNCHANGED <<cfg, call, att, items, fresh, pdfSkipped, pdfGot, warm, pdfResp>>

(* ---------------- specification ---------------- *)
Step(s) ==
  \/ LoopStart(s)
  \/ FetchRssFail(s)
  \/ FetchRssOk(s)
  \/ SendText(s)
  \/ PdfResponse(s)
  \/ SendDoc(s)
  \/ Wake(s)

NseFetchStep ==
  NseWarmFail \/ NseWarmOk \/ NseWarmStatus \/ NseDataFail \/ NseDataOk

Next == (\E s \in Sources : Step(s)) \/ NseFetchStep

Spec == Init /\ [][Next]_vars

\* the same loops with feeds and record lists of up to MaxWideItems items
WideStep(s) ==
  \/ LoopStart(s)
  \/ FetchRssFail(s)
  \/ FetchRssOkUpTo(s, MaxWideItems)
  \/ SendText(s)
  \/ PdfResponse(s)
  \/ SendDoc(s)
  \/ Wake(s)

WideNseFetchStep ==
  NseWarmFail \/ NseWarmOk \/ NseWarmStatus \/ NseDataFail
    \/ NseDataOkUpTo(MaxWideItems)

WideNext == (\E s \in Sources : WideStep(s)) \/ WideNseFetchStep

WideSpec == Init /\ [][WideNext]_vars

\* the same loops with the larger set of feed entries
MoreStep(s) ==
  \/ LoopStart(s)
  \/ FetchRssFail(s)
  \/ FetchRssOkFrom(s, RssEntriesMore, MaxRssItems)
  \/ SendText(s)
  \/ PdfResponse(s)
  \/ SendDoc(s)
  \/ Wake(s)

MoreNext == (\E s \in Sources : MoreStep(s)) \/ NseFetchStep

MoreSpec == Init /\ [][MoreNext]_vars

\* loop_nse alone (ENABLE_SEBI and ENABLE_BSE off), with the larger set of
\* records
NseOnlyInit == Init /\ cfg.enabled = {"NSE"}

NseOnlyNext ==
  \/ LoopStart("NSE")
  \/ NseWarmFail \/ NseWarmOk \/ NseWarmStatus \/ NseDataFail
  \/ NseDataOkFrom(NseRecordsMore, MaxNseItems)
  \/ SendText("NSE")
  \/ PdfResponse("NSE")
  \/ SendDoc("NSE")
  \/ Wake("NSE")

NseOnlySpec == NseOnlyInit /\ [][NseOnlyNext]_vars

(* ---------------- match_filters on its own ---------------- *)
\* texts: None and the strings of at most MaxTextLen characters
FilterTexts == {NoneVal} \cup SeqsUpTo({"q", "Q", "x", " "}, MaxTextLen)

\* KEYWORDS / WATCHLIST as lines 59 and 61 build them: lists of stripped,
\* lower-cased, non-empty terms
FilterTerms == { <<"q">>, <<"x">>, <<"q", " ", "x">> }
FilterLists == SeqsUpTo(FilterTerms, MaxTerms)

FilterInit ==
  /\ ProgramInit /\ cfg = DefaultConfig
  /\ call \in [fn : {"match_filters"}, text : FilterTexts, kws : FilterLists,
               wl : FilterLists, done : {FALSE}, out : {FALSE}]

\* match_filters(text) is evaluated with KEYWORDS = kws and WATCHLIST = wl
ApplyFilter ==
  /\ call.fn = "match_filters" /\ ~call.done
  /\ call' = [call EXCEPT !.done = TRUE,
                          !.out = FilterOk(call.text, call.kws, call.wl)]
  /\ UNCHANGED progVars

FilterNext == ApplyFilter

FilterSpec == FilterInit /\ [][FilterNext]_vars

(* ---------------- the ledger on its own ---------------- *)
\* what the program holds besides the two tables
taskVars == <<cfg, pc, att, items, idx, rcp, textSent, textDup, pdfSkipped, pdfGot,
              docSent, docDup, docDelivered, writes, fresh, cycleErr, warm, pdfResp>>

LedgerIds == { <<"1">>, <<"a", "g", "m">> }
LedgerUrls == { PdfUrl, HtmlUrl }

\* db_init has run: both tables exist and are empty
LedgerInit ==
  /\ ProgramInit /\ cfg = DefaultConfig
  /\ call = [fn |-> "db_init", arg |-> <<>>, seen |-> {}, sent_pdf |-> {}]

\* a call of seen_add(source, item_id), whatever the table holds
DbSeenAdd(source, item_id) ==
  /\ call.fn # "none"
  /\ seen' = seen_add(seen, source, item_id)
  /\ call' = [fn |-> "seen_add", arg |-> <<source, item_id>>,
              seen |-> seen, sent_pdf |-> sent_pdf]
  /\ UNCHANGED <<taskVars, sent_pdf>>

\* a call of pdf_mark_sent(url), whatever the table holds
DbPdfMarkSent(url) ==
  /\ call.fn # "none"
  /\ sent_pdf' = pdf_mark_sent(sent_pdf, url)
  /\ call' = [fn |-> "pdf_mark_sent", arg |-> url,
              seen |-> seen, sent_pdf |-> sent_pdf]
  /\ UNCHANGED <<taskVars, seen>>

LedgerNext ==
  \/ \E source \in Sources : \E item_id \in LedgerIds : DbSeenAdd(source, item_id)
  \/ \E url \in LedgerUrls : DbPdfMarkSent(url)

LedgerSpec == LedgerInit /\ [][LedgerNext]_vars

(* ---------------- restart ---------------- *)
\* the process is killed and started again: the tasks and their locals are
\* gone, main_async runs from its top; the sqlite file (seen, sent_pdf) and
\* the environment are what they were, and what was sent stays sent
Crash ==
  /\ \E s \in Sources : pc[s] # "start"
  /\ pc' = [s \in Sources |-> "start"]
  /\ att' = [s \in Sources |-> 0]
  /\ items' = [s \in Sources |-> <<>>]
  /\ idx' = [s \in Sources |-> 0]
  /\ rcp' = [s \in Sources |-> 0]
  /\ writes' = [s \in Sources |-> <<>>]
  /\ fresh' = [s \in Sources |-> FALSE]
  /\ cycleErr' = [s \in Sources |-> "none"]
  /\ warm' = "none"
  /\ pdfResp' = [s \in Sources |-> NoResponse]
  /\ UNCHANGED <<cfg, call, seen, sent_pdf, textSent, textDup, pdfSkipped, pdfGot,
                 docSent, docDup, docDelivered>>

CrashNext == Next \/ Crash

\* restarts are followed in the configurations with one enabled source
CrashInit == Init /\ Cardinality(cfg.enabled) = 1

CrashSpec == CrashInit /\ [][CrashNext]_vars

\* the configuration of the module's defaults: every ENABLE_*, ONLY_MATCHING
\* and SEND_PDF at "1"
LiveInit == Init /\ cfg = [only_matching |-> TRUE, send_pdf |-> TRUE, enabled |-> Sources]

\* every request has a timeout and every sleep ends, so a task that can take
\* a step takes one
LiveSpec ==
  /\ LiveInit /\ [][Next]_vars
  /\ \A s \in Sources : WF_vars(Step(s))
  /\ WF_vars(NseFetchStep)

(* ---------------- properties ---------------- *)
\* positions of items[s] whose handle_item call has ended (returned or raised)
Ended(s) ==
  {i \in 1..Len(items[s]) : i > idx[s] + (IF InHandle(s) THEN 1 ELSE 0)}

\* the cycle of source s is over and its fetch had succeeded
CycleDone(s) == pc[s] = "sleep" /\ cycleErr[s] # "fetch"

AllRecipients(s, id) ==
  \A c \in 1..Len(CHAT_IDS) : <<s, id, CHAT_IDS[c]>> \in textSent

\* the words of an item, a missing company read as empty
TextOf(it) ==
  it.title \o <<" ">> \o it.summary \o <<" ">>
    \o (IF it.company = NoneVal THEN EmptyStr ELSE it.company)

PassesFilter(it) == ~ONLY_MATCHING \/ match_filters(TextOf(it))

\* C1: no send of the text notification of a (source, id) is ever made a
\* second time to a recipient: once handle_item has dealt with an item, later
\* calls for the same source and id send nothing.
C1_TextAtMostOnce == textDup = {}

\* an item notified in an earlier cycle came back in a later fetch and its
\* handle_item call ended without a send or a write
C1_Witness ==
  \E s \in Sources : \E i \in 1..Len(items[s]) :
    /\ CycleDone(s) /\ idx[s] = 0
    /\ AllRecipients(s, items[s][i].id)
    /\ items[s][i].id \notin Range(writes[s])

\* C2: an item with empty id leaves no trace: no seen record and no text
\* carries an empty id, and no handle_item call for such an item ever gets as
\* far as notify_text, fetch_pdf_bytes, notify_pdf or pdf_mark_sent.
C2_EmptyIdUntouched ==
  /\ \A k \in seen : k[2] # EmptyStr
  /\ \A x \in textSent : x[2] # EmptyStr
  /\ \A s \in Sources : InHandle(s) => Cur(s).id # EmptyStr
  /\ \A s \in Sources : EmptyStr \notin Range(writes[s])

\* handle_item was called for an item with empty id and has ended
C2_Witness ==
  \E s \in Sources : \E i \in Ended(s) : items[s][i].id = EmptyStr

\* C3: every handle_item call for an item with non-empty id, once ended, has
\* left the seen record of (source, id) in the ledger.
C3_SeenWriteAlways ==
  \A s \in Sources : \A i \in Ended(s) :
    items[s][i].id # EmptyStr => <<s, items[s][i].id>> \in seen

\* C4: when a cycle whose fetch succeeded is over, every fetched item with
\* non-empty id that passes the filter has had its text notification sent to
\* every recipient.
C4_NotifiedByCycleEnd ==
  \A s \in Sources : CycleDone(s) =>
    \A i \in 1..Len(items[s]) :
      (items[s][i].id # EmptyStr /\ PassesFilter(items[s][i]))
        => AllRecipients(s, items[s][i].id)

\* the first request of a new cycle of source t is under way
CycleStarted(t) == pc[t] = FirstRequest(t) /\ att[t] = 1

\* C5: once a fetch of some source has failed for good, every enabled source
\* t (the failing one included) gets to the sleep that ends its cycle, and
\* from every sleep it starts another cycle; no enabled source's loop ends.
C5_FaultIsolation ==
  /\ \A t \in Sources :
       ((\E s \in Sources : cycleErr[s] = "fetch") /\ Enabled(t)) ~> (pc[t] = "sleep")
  /\ \A t \in Sources : (pc[t] = "sleep") ~> CycleStarted(t)
  /\ [](\A t \in Sources : Enabled(t) => pc[t] # "done")

\* the loop of a source sleeps after a fetch that failed RetryAttempts times
C5_Witness == \E s \in Sources : pc[s] = "sleep" /\ cycleErr[s] = "fetch"

\* C6: a cycle that fetched unseen items with distinct non-empty ids has, at
\* its end, written their seen records in the reverse of the fetched order.
C6_ReverseOrderWrites ==
  \A s \in Sources : (CycleDone(s) /\ fresh[s]) =>
    writes[s] = Reverse([i \in 1..Len(items[s]) |-> items[s][i].id])

\* C7: when a cycle whose fetch succeeded is over, the for loop has taken
\* every fetched item and passed it to handle_item.
C7_EveryItemPassed ==
  \A s \in Sources : CycleDone(s) => idx[s] = 0

\* C8: no handle_item call is inside fetch_pdf_bytes or notify_pdf for a url
\* that the sent_pdf ledger holds.
C8_NoFetchOfSentUrl ==
  \A s \in Sources :
    pc[s] \in {"fetch_pdf", "notify_pdf"} => Cur(s).link \notin sent_pdf

\* an item was notified and its link, already in sent_pdf, got no download
C8_Witness ==
  \E s \in Sources : \E i \in 1..Len(items[s]) :
    /\ CycleDone(s)
    /\ items[s][i].id \in Range(writes[s])
    /\ AllRecipients(s, items[s][i].id)
    /\ items[s][i].link \in pdfSkipped
    /\ items[s][i].link \in sent_pdf

\* C9: no send of a document for a url is ever made a second time to a
\* recipient, whatever the interleaving of the three loops.
C9_DocAtMostOnce == docDup = {}

\* a document went to every recipient, a later item with the same link was
\* notified without a download, and the feed of another source carries the
\* link as well
C9_Witness ==
  \E u \in pdfSkipped : \E s \in Sources :
    /\ \A c \in 1..Len(CHAT_IDS) : <<u, CHAT_IDS[c]>> \in docSent
    /\ \E i \in 1..Len(items[s]) : items[s][i].link = u /\ items[s][i].company = NoneVal

\* C10 as claimed: a url in sent_pdf has been delivered to some recipient.
C10_OnlyAfterDelivery == \A u \in sent_pdf : u \in docDelivered

\* C10 as amended: a url in sent_pdf is one whose download returned a content
\* and whose document was submitted to every recipient.
C10_OnlyAfterSubmission ==
  \A u \in sent_pdf :
    /\ u \in pdfGot
    /\ \A c \in 1..Len(CHAT_IDS) : <<u, CHAT_IDS[c]>> \in docSent

\* a url was recorded although every send of its document had failed
C10_Witness == \E u \in sent_pdf : u \notin docDelivered

\* the body of a download is larger than MAX_PDF_MB megabytes
Oversize(resp) == resp.ok /\ resp.size > MAX_PDF_MB * MB

\* the step of source s in which its download ends
DownloadEnds(s) == pc[s] = "fetch_pdf" /\ pc'[s] # "fetch_pdf"

\* C11: a download whose body is larger than MAX_PDF_MB megabytes makes
\* fetch_pdf_bytes return None: the step submits no document to any
\* recipient, leaves the url out of sent_pdf, and writes the seen record of
\* the item.
C11_SizeRejection ==
  [][\A s \in Sources :
       (DownloadEnds(s) /\ Oversize(pdfResp'[s])) =>
         /\ fetch_pdf_bytes(Cur(s).link, pdfResp'[s]) = PdfNone
         /\ docSent' = docSent
         /\ sent_pdf' = sent_pdf /\ Cur(s).link \notin sent_pdf'
         /\ is_seen(seen', s, Cur(s).id)]_vars

\* the cycle of a source is over after a download that was too large: the
\* item is seen, its url is not in sent_pdf, no document of it was sent
C11_Witness ==
  \E s \in Sources : \E i \in 1..Len(items[s]) :
    /\ CycleDone(s) /\ Oversize(pdfResp[s])
    /\ is_seen(seen, s, items[s][i].id)
    /\ items[s][i].link \notin sent_pdf
    /\ \A c \in 1..Len(CHAT_IDS) : <<items[s][i].link, CHAT_IDS[c]>> \notin docSent

\* the document of url u was submitted to every recipient
AllDocRecipients(u) == \A c \in 1..Len(CHAT_IDS) : <<u, CHAT_IDS[c]>> \in docSent

\* C12: whatever the outcome of each send, a notification begun for an item
\* is submitted to every recipient of CHAT_IDS (or its sends are still under
\* way), the same for a document, the handle_item call ends with the seen
\* write, and an exception that reaches the loop is never one of a send: it
\* is the join of an item with a None field.
C12_DeliveryFailureIsolated ==
  /\ \A x \in textSent :
       \/ AllRecipients(x[1], x[2])
       \/ pc[x[1]] = "notify_text" /\ Cur(x[1]).id = x[2]
  /\ \A y \in docSent :
       \/ AllDocRecipients(y[1])
       \/ \E s \in Sources : pc[s] = "notify_pdf" /\ Cur(s).link = y[1]
  /\ \A x \in textSent :
       \/ is_seen(seen, x[1], x[2])
       \/ InHandle(x[1]) /\ Cur(x[1]).id = x[2]
  /\ \A s \in Sources :
       cycleErr[s] = "item" => ~CanJoin(items[s][idx[s] + 1])

\* every send_document of an item failed: the document was still submitted
\* to every recipient and the call ended with the seen write
C12_Witness ==
  \E s \in Sources : \E i \in 1..Len(items[s]) :
    /\ CycleDone(s) /\ cycleErr[s] = "none"
    /\ AllRecipients(s, items[s][i].id)
    /\ AllDocRecipients(items[s][i].link)
    /\ items[s][i].link \notin docDelivered
    /\ is_seen(seen, s, items[s][i].id)

\* some term of the list occurs in the lower-cased text
AnyTermIn(terms, text) ==
  \E k \in Range(terms) :
    IsSubstr(k, lower(IF text = NoneVal THEN EmptyStr ELSE text))

\* C13: match_filters returns true iff (KEYWORDS is empty or some keyword is
\* a substring of the lower-cased text) and (WATCHLIST is empty or some
\* watchlist term is a substring of the lower-cased text); the evaluation
\* leaves the ledgers alone and sends nothing.
C13_FilterPredicate ==
  call.fn = "match_filters" /\ call.done =>
    /\ call.out <=> /\ (call.kws = <<>> \/ AnyTermIn(call.kws, call.text))
                     /\ (call.wl = <<>> \/ AnyTermIn(call.wl, call.text))
    /\ seen = {} /\ sent_pdf = {} /\ textSent = {} /\ docSent = {}

\* a text with upper-case letters passed non-empty KEYWORDS and WATCHLIST
C13_Witness ==
  /\ call.fn = "match_filters" /\ call.done /\ call.out
  /\ call.kws # <<>> /\ call.wl # <<>>
  /\ call.text # NoneVal /\ lower(call.text) # call.text

\* the items a fetch of source s can return
SourceItems(s) ==
  IF s \in RssSources THEN {RssItem(e) : e \in RssEntriesMore}
  ELSE {NseItem(r) : r \in NseRecords}

\* C14: seen_add is the last step of handle_item.  No item is seen while its
\* handle_item call is at its text sends, its download or its document
\* sends; a seen item that passes the filter has had its text submitted to
\* every recipient; and a restart in the middle of a call leaves its item
\* unseen, to be handled again.
C14_SeenWriteLast ==
  /\ [](\A s \in Sources : InHandle(s) => ~is_seen(seen, s, Cur(s).id))
  /\ [](\A k \in seen : \A it \in SourceItems(k[1]) :
          (it.id = k[2] /\ PassesFilter(it)) => AllRecipients(k[1], k[2]))
  /\ [][\A s \in Sources :
          (InHandle(s) /\ pc'[s] = "start") => ~is_seen(seen', s, Cur(s).id)]_vars

\* after a restart in the middle of its handle_item call an item is handled
\* again: its text goes to a recipient a second time, and it is still unseen
C14_Witness ==
  \E s \in Sources :
    /\ pc[s] = "notify_text"
    /\ <<s, Cur(s).id, CHAT_IDS[1]>> \in textDup
    /\ ~is_seen(seen, s, Cur(s).id)

\* C15: after seen_add(source, id) the record is there, and a call for a
\* record already there leaves both tables as they were; the same for
\* pdf_mark_sent(url).  (INSERT OR IGNORE: the call has no error outcome.)
C15_LedgerWritesIdempotent ==
  /\ call.fn = "seen_add" =>
       /\ is_seen(seen, call.arg[1], call.arg[2])
       /\ is_seen(call.seen, call.arg[1], call.arg[2]) => seen = call.seen
       /\ sent_pdf = call.sent_pdf
  /\ call.fn = "pdf_mark_sent" =>
       /\ pdf_was_sent(sent_pdf, call.arg)
       /\ pdf_was_sent(call.sent_pdf, call.arg) => sent_pdf = call.sent_pdf
       /\ seen = call.seen

\* seen_add was called for a record the table already held, next to other
\* records and a non-empty sent_pdf
C15_Witness ==
  /\ call.fn = "seen_add"
  /\ is_seen(call.seen, call.arg[1], call.arg[2])
  /\ Cardinality(seen) > 1 /\ sent_pdf # {}

\* C16: with ONLY_MATCHING on, a handle_item call that has ended for an item
\* with non-empty id that fails the filter has left the seen record of the
\* item (so that later calls stop at the guard), and no text of the item was
\* ever sent.
C16_FilteredOutOnlySeen ==
  ONLY_MATCHING =>
    \A s \in Sources : \A i \in Ended(s) :
      (items[s][i].id # EmptyStr /\ ~match_filters(TextOf(items[s][i]))) =>
        /\ is_seen(seen, s, items[s][i].id)
        /\ \A c \in 1..Len(CHAT_IDS) : <<s, items[s][i].id, CHAT_IDS[c]>> \notin textSent

\* C17: no call of fetch_rss or fetch_nse is at an attempt beyond
\* RetryAttempts; a cycle whose fetch failed for good has no items, has taken
\* none and has written nothing, and its loop is at the sleep.
C17_BoundedRetry ==
  \A s \in Sources :
    /\ att[s] <= RetryAttempts
    /\ cycleErr[s] = "fetch" =>
         /\ pc[s] = "sleep"
         /\ items[s] = <<>> /\ idx[s] = 0 /\ writes[s] = <<>>

\* the fetch of a source failed RetryAttempts times while the ledger already
\* held a record of an earlier cycle
C17_Witness ==
  \E s \in Sources :
    /\ cycleErr[s] = "fetch" /\ att[s] = 0
    /\ \E k \in seen : k[1] = s

\* C18: the data request of fetch_nse is under way only after the warm-up
\* request of the same attempt, and only if that warm-up did not fail; a
\* step that ends a warm-up without going on to the data request starts the
\* next attempt at the warm-up, or ends the fetch after the last attempt.
C18_WarmupBeforeData ==
  /\ [](pc["NSE"] = "data" => warm = "ok")
  /\ [][(pc'["NSE"] = "data" /\ pc["NSE"] # "data") => pc["NSE"] = "warm"]_vars
  /\ [][(pc["NSE"] = "warm" /\ pc'["NSE"] # "data" /\ att'["NSE"] # att["NSE"]) =>
          \/ pc'["NSE"] = "warm" /\ att'["NSE"] = att["NSE"] + 1
          \/ pc'["NSE"] = "sleep" /\ att["NSE"] = RetryAttempts]_vars

\* C19: a seen record of one source does not make the same id seen for
\* another source; an item that passes the filter, with an id another source
\* has recorded, is notified to every recipient (once) by the end of its own
\* source's cycle; and no step removes a record from seen or sent_pdf.
C19_PerSourceDedup ==
  /\ [](\A s1, s2 \in Sources : \A id \in LedgerIds :
          s1 # s2 => (is_seen(seen_add(seen, s1, id), s2, id) <=> is_seen(seen, s2, id)))
  /\ [](\A s2 \in Sources : CycleDone(s2) =>
          \A i \in 1..Len(items[s2]) :
            (/\ items[s2][i].id # EmptyStr /\ PassesFilter(items[s2][i])
             /\ \E s1 \in Sources \ {s2} : is_seen(seen, s1, items[s2][i].id))
              => AllRecipients(s2, items[s2][i].id) /\ textDup = {})
  /\ [][seen \subseteq seen' /\ sent_pdf \subseteq sent_pdf']_vars

\* the download of source s ended with a body within the size limit
WithinLimit(resp) == resp.ok /\ resp.size <= MAX_PDF_MB * MB

\* the step hands the body to notify_pdf: the first send_document is made
Delivers(s) ==
  /\ pc'[s] = "notify_pdf"
  /\ <<Cur(s).link, CHAT_IDS[1]>> \in docSent'

\* C20 as claimed: every download made by handle_item that succeeds with a
\* body within the size limit is returned by fetch_pdf_bytes and handed to
\* notify_pdf, whatever its Content-Type.
C20_NoContentTypeRejection ==
  [][\A s \in Sources :
       (DownloadEnds(s) /\ WithinLimit(pdfResp'[s])) =>
         /\ fetch_pdf_bytes(Cur(s).link, pdfResp'[s]) = pdfResp'[s].size
         /\ Delivers(s)]_vars

\* C20 as amended: such a download is always returned, whatever its
\* Content-Type, and it is handed to notify_pdf iff its body is not empty; an
\* empty body ends handle_item with the seen write and no sent_pdf write.
C20_NonEmptyDelivered ==
  /\ [](\A s \in Sources :
          pc[s] \in {"fetch_pdf", "notify_pdf"} => looks_like_pdf_url(Cur(s).link))
  /\ [][\A s \in Sources :
          (DownloadEnds(s) /\ WithinLimit(pdfResp'[s])) =>
            /\ fetch_pdf_bytes(Cur(s).link, pdfResp'[s]) = pdfResp'[s].size
            /\ pdfResp'[s].size > 0 => Delivers(s)
            /\ pdfResp'[s].size = 0 =>
                 /\ docSent' = docSent /\ sent_pdf' = sent_pdf
                 /\ is_seen(seen', s, Cur(s).id)]_vars

\* a body that came with an HTML content type is being sent as a document,
\* after an item whose link is a page was notified without a download
C20_Witness ==
  \E s \in Sources :
    /\ pc[s] = "notify_pdf"
    /\ WithinLimit(pdfResp[s])
    /\ ~IsSubstr(<<"p", "d", "f">>, lower(pdfResp[s].ctype))
    /\ <<Cur(s).link, CHAT_IDS[1]>> \in docSent
    /\ SEND_PDF /\ AllRecipients(s, <<"2">>) /\ is_seen(seen, s, <<"2">>)

====
